---- MODULE Spec2Model ----
(***************************************************************************)
(* Access-credential lifecycle of the ACENEXA CBT portal.                  *)
(*                                                                         *)
(* The model follows the server (src/unnamed/part_001), the database       *)
(* migration (src/unnamed/part_006) and the client login service           *)
(* (src/services/config.ts).  The server addresses the credential table    *)
(* under two names ('access_codes' on the login path, 'access_tokens' on   *)
(* the payment path); the migration declares one table with one BEFORE     *)
(* UPDATE trigger.  The model keeps ONE credential table, access_tokens,   *)
(* whose rows carry the columns of the migration plus the is_used column   *)
(* that bindAccessCode reads and writes.                                   *)
(*                                                                         *)
(* Time is counted in whole UTC days since 1 January of EpochYear.         *)
(***************************************************************************)
EXTENDS Integers, Sequences, FiniteSets, TLC

VARIABLES
    now,            \* the database / server clock, in days since the epoch
    access_tokens,  \* the credential table: a set of rows
    nextId,         \* next row id (gen_random_uuid stands for a fresh id)
    call,           \* per login session: the loginWithToken call in progress
    pay,            \* per payment slot: the verify-paystack request in progress
    paystack,       \* the payment gateway's record of each reference
    localTokens,    \* per device: localStorage[LOCAL_TOKENS_KEY]
    currentUser,    \* per device: localStorage[CURRENT_USER_KEY]
    pending_tokens, \* localStorage['pending_tokens'] of the purchase page
    gen,            \* the code generator's call: its random input and its result
    device,         \* per device: localStorage's fingerprint item, the values returned
    offline_results, \* localStorage['offline_results']: the queue of unsaved results
    posts,          \* the POSTs of results the backend has answered, in order
    sync,           \* per invocation: the syncOfflineResults call in progress
    save,           \* per invocation: the saveStudentResult call in progress
    selected,       \* SubjectSelection: the selected subjects
    examType,       \* SubjectSelection: the exam type
    started,        \* the subjects the exam was last started with
    calc,           \* calculateResult: its session and its result
    ops             \* number of operations the environment has started

\* The state of the exam pages: the result queue, the subject selection and
\* the result calculation.
appVars == <<offline_results, posts, sync, save, selected, examType, started, calc>>

vars == <<now, access_tokens, nextId, call, pay, paystack, localTokens,
          currentUser, pending_tokens, gen, device, ops, appVars>>

-----------------------------------------------------------------------------
(* Bounds of the model *)

\* The environment starts at most MaxOps operations in a behaviour: clock
\* advances, code generations, logins, payment verifications, admin actions.
MaxOps == 4

(* Finite input domains *)

Codes == {"ACE-AAAA", "ACE-BBBB"}      \* the codes generateAccessCode may draw
Fingerprints == {"fpA", "fpB"}         \* one fingerprint per device
Devices == Fingerprints
Sessions == {"s1", "s2"}               \* concurrent loginWithToken calls
PaySlots == {"p1", "p2"}               \* concurrent verify-paystack requests
Refs == {"ref1"}                       \* payment transaction references
TickSteps == {1, 365, 366}             \* the clock advances by a day, 365 or 366 days

NULL == "null"
NoTime == -1                            \* SQL NULL of a timestamptz column
NoId == 0
NoAmount == -1                          \* metadata without amount_paid

-----------------------------------------------------------------------------
(* Calendar arithmetic: timestamptz + interval '1 year' *)

EpochYear == 2026

IsLeap(y) == (y % 4 = 0 /\ y % 100 # 0) \/ (y % 400 = 0)

DaysInYear(y) == IF IsLeap(y) THEN 366 ELSE 365

DaysInMonth(y, m) ==
    IF m = 2 THEN (IF IsLeap(y) THEN 29 ELSE 28)
    ELSE IF m \in {4, 6, 9, 11} THEN 30 ELSE 31

RECURSIVE YearFrom(_, _)
YearFrom(y, d) == IF d < DaysInYear(y) THEN y ELSE YearFrom(y + 1, d - DaysInYear(y))

RECURSIVE YearStart(_)
YearStart(y) == IF y <= EpochYear THEN 0 ELSE YearStart(y - 1) + DaysInYear(y - 1)

RECURSIVE MonthStart(_, _)
MonthStart(y, m) == IF m <= 1 THEN 0 ELSE MonthStart(y, m - 1) + DaysInMonth(y, m - 1)

YearOf(d) == YearFrom(EpochYear, d)

MonthOf(d) ==
    LET y == YearOf(d)
        doy == d - YearStart(y)
    IN  CHOOSE m \in 1..12 :
            MonthStart(y, m) <= doy /\ doy < MonthStart(y, m) + DaysInMonth(y, m)

DayOf(d) ==
    LET y == YearOf(d) IN d - YearStart(y) - MonthStart(y, MonthOf(d)) + 1

ToDay(y, m, dd) == YearStart(y) + MonthStart(y, m) + dd - 1

Min(a, b) == IF a <= b THEN a ELSE b

\* A mutated interval: a fixed 365 days instead of one calendar year.
PlusOneYear_Fixed365(d) == d + 365

\* now() + interval '1 year': same month and day of the next year, the day
\* clamped to the length of the month (29 February becomes 28 February).
PlusOneYear(d) ==
    LET y == YearOf(d)
        m == MonthOf(d)
    IN  ToDay(y + 1, m, Min(DayOf(d), DaysInMonth(y + 1, m)))

-----------------------------------------------------------------------------
(* The credential table *)

\* A lookup by code that never finds a row: the UNIQUE index is not consulted.
RowByCode_Never(code) == {}

RowByCode(code) == {r \in access_tokens : r.code = code}

RowById(id) == {r \in access_tokens : r.id = id}

RowsByRef(ref) == {r \in access_tokens : r.payment_ref = ref}

\* A variant of the INSERT that stores the row deactivated.
NewRow_Inactive(id, code, ref) ==
    [id |-> id, code |-> code, is_active |-> FALSE,
     device_fingerprint |-> NULL, bound_at |-> NoTime, expires_at |-> NoTime,
     is_used |-> FALSE, payment_ref |-> ref, amount_paid |-> NoAmount]

\* A row as INSERT leaves it: the column defaults of the migration.
NewRow(id, code, ref) ==
    [id |-> id, code |-> code, is_active |-> TRUE,
     device_fingerprint |-> NULL, bound_at |-> NoTime, expires_at |-> NoTime,
     is_used |-> FALSE, payment_ref |-> ref, amount_paid |-> NoAmount]

\* A mutated trigger: stamps the expiry on every update that carries a fingerprint.
set_token_expiry_Always(old, new) ==
    IF new.device_fingerprint # NULL
    THEN [new EXCEPT !.bound_at = now, !.expires_at = PlusOneYear(now)]
    ELSE new

\* BEFORE UPDATE trigger token_expiry_trigger.
set_token_expiry(old, new) ==
    IF new.device_fingerprint # NULL /\ old.device_fingerprint = NULL
    THEN [new EXCEPT !.bound_at = now, !.expires_at = PlusOneYear(now)]
    ELSE new

\* UPDATE ... WHERE id = id, with the row trigger applied.
UpdateById(id, f(_)) ==
    {IF r.id = id THEN set_token_expiry(r, f(r)) ELSE r : r \in access_tokens}

-----------------------------------------------------------------------------
(* The clock *)

Tick ==
    /\ ops < MaxOps
    /\ \E d \in TickSteps : now' = now + d
    /\ ops' = ops + 1
    /\ UNCHANGED <<access_tokens, nextId, call, pay, paystack, localTokens,
                   currentUser, pending_tokens, gen, device, appVars>>

-----------------------------------------------------------------------------
(* Code generation: createAccessCode (admin generate-code, student purchase) *)

\* What crypto.randomBytes gives the generator: the code of the first call of
\* generateAccessCode and the code a second call would return.
DrawStreams == Codes \X Codes

\* createAccessCode under a given random stream: one call of
\* generateAccessCode, one INSERT, `if (error) throw error`.
createAccessCodeWith(draws) ==
    /\ ops < MaxOps
    /\ ops' = ops + 1
    /\ LET code == draws[1]
       IN  \* the UNIQUE constraint on the code column rejects a collision
           \* and the handler answers 500.
           IF RowByCode(code) = {}
           THEN /\ access_tokens' = access_tokens \cup {NewRow(nextId, code, NULL)}
                /\ nextId' = nextId + 1
           ELSE UNCHANGED <<access_tokens, nextId>>
    /\ UNCHANGED <<now, call, pay, paystack, localTokens, currentUser,
                   pending_tokens, gen, device, appVars>>

createAccessCode == \E draws \in DrawStreams : createAccessCodeWith(draws)

-----------------------------------------------------------------------------
(* Token login: POST /api/auth/login-with-token and bindAccessCode *)

NoRow == NewRow(NoId, NULL, NULL)

IdleCall ==
    [pc |-> "idle", token |-> NULL, fp |-> NULL, confirm |-> FALSE,
     data_id |-> NoId, response |-> "none", result |-> "none"]

\* The rest of the module's variables, for the login steps that touch only `call`.
LoginFrame == UNCHANGED <<now, nextId, pay, paystack, pending_tokens, gen, device, appVars>>

\* A variant of the handler's decision that binds without confirm_binding.
LoginDecision_AutoConfirm(row, fp, confirm) ==
    IF row.id = NoId THEN "Invalid"
    ELSE IF ~row.is_active THEN "Deactivated"
    ELSE IF row.device_fingerprint = NULL THEN "bind"
    ELSE IF row.device_fingerprint # fp THEN "DeviceMismatch"
    ELSE "Valid"

\* The handler's decision on the row it has read (tokenData): the answer it
\* sends, or "bind" when it goes on to call bindAccessCode.
LoginDecision(row, fp, confirm) ==
    IF row.id = NoId THEN "Invalid"                         \* 401
    ELSE IF ~row.is_active THEN "Deactivated"               \* 403
    ELSE IF row.device_fingerprint = NULL
         THEN (IF ~confirm THEN "RequiresBinding" ELSE "bind")
    ELSE IF row.device_fingerprint # fp THEN "DeviceMismatch"   \* 403
    ELSE "Valid"                                            \* 200

\* The client calls loginWithToken and the request reaches the server.
LoginStart(s) ==
    /\ call[s].pc = "idle"
    /\ ops < MaxOps
    /\ \E token \in Codes, fp \in Fingerprints, confirm \in BOOLEAN :
         call' = [call EXCEPT ![s] =
                    [IdleCall EXCEPT !.pc = "srv_read", !.token = token,
                                     !.fp = fp, !.confirm = confirm]]
    /\ ops' = ops + 1
    /\ UNCHANGED <<access_tokens, localTokens, currentUser>>
    /\ LoginFrame

\* The handler's SELECT by code and the decision taken on the row read.
SrvRead(s) ==
    /\ call[s].pc = "srv_read"
    /\ LET rows == RowByCode(call[s].token)
           row == IF rows = {} THEN NoRow ELSE CHOOSE r \in rows : TRUE
           d == LoginDecision(row, call[s].fp, call[s].confirm)
       IN  call' = [call EXCEPT ![s].pc = IF d = "bind" THEN "bind_read" ELSE "resp",
                                ![s].response = IF d = "bind" THEN "none" ELSE d]
    /\ UNCHANGED <<access_tokens, ops, localTokens, currentUser>>
    /\ LoginFrame

\* bindAccessCode's guard on the row it has read.
BindRefused(data, fp) == data.is_used /\ data.device_fingerprint # fp

\* bindAccessCode: the SELECT by code and the guard.
BindRead(s) ==
    /\ call[s].pc = "bind_read"
    /\ LET rows == RowByCode(call[s].token)
       IN  IF rows = {}
           THEN call' = [call EXCEPT ![s].pc = "resp",
                                     ![s].response = "Error_InvalidCode"]   \* 500
           ELSE LET data == CHOOSE r \in rows : TRUE
                IN  IF BindRefused(data, call[s].fp)
                    THEN call' = [call EXCEPT ![s].pc = "resp",
                                              ![s].response = "Error_UsedElsewhere"] \* 500
                    ELSE call' = [call EXCEPT ![s].pc = "bind_write",
                                              ![s].data_id = data.id]
    /\ UNCHANGED <<access_tokens, ops, localTokens, currentUser>>
    /\ LoginFrame

\* bindAccessCode: UPDATE ... SET device_fingerprint, is_used WHERE id = data.id.
BindUpdate(id, fp) ==
    UpdateById(id, LAMBDA r : [r EXCEPT !.device_fingerprint = fp, !.is_used = TRUE])

\* bindAccessCode's UPDATE and the handler's success answer.
BindWrite(s) ==
    /\ call[s].pc = "bind_write"
    /\ access_tokens' = BindUpdate(call[s].data_id, call[s].fp)
    /\ call' = [call EXCEPT ![s].pc = "resp", ![s].response = "Bound"]
    /\ UNCHANGED <<ops, localTokens, currentUser>>
    /\ LoginFrame

-----------------------------------------------------------------------------
(* The client: loginWithToken, verifyLocalToken and the local token cache *)

RECURSIVE FilterOut(_, _)
FilterOut(tokens, code) ==
    IF tokens = <<>> THEN <<>>
    ELSE IF Head(tokens).token_code = code THEN FilterOut(Tail(tokens), code)
    ELSE <<Head(tokens)>> \o FilterOut(Tail(tokens), code)

\* The TokenInfo that loginWithToken caches after an online success: it carries
\* the fingerprint and neither bound_at nor expires_at.
CachedToken(token, fp) ==
    [token_code |-> token, is_active |-> TRUE, device_fingerprint |-> fp,
     bound_at |-> NoTime, expires_at |-> NoTime]

\* saveLocalToken: drop the entries of the same code, put the new one first.
saveLocalToken(tokens, t) == <<t>> \o FilterOut(tokens, t.token_code)

\* updateLocalToken(tokenCode, {device_fingerprint}).
updateLocalToken(tokens, code, fp) ==
    [i \in DOMAIN tokens |->
        IF tokens[i].token_code = code
        THEN [tokens[i] EXCEPT !.device_fingerprint = fp] ELSE tokens[i]]

\* What a user may type in the access-code field: a stored code as issued, or
\* the same code in lower case.
Typed == Codes \cup {"ace-aaaa", "ace-bbbb"}

\* String.prototype.toUpperCase on the strings of the model.
toUpperCase(str) ==
    CASE str = "ace-aaaa" -> "ACE-AAAA"
      [] str = "ace-bbbb" -> "ACE-BBBB"
      [] OTHER -> str

\* getLocalTokens().find(t => t.token_code.toUpperCase() ===
\* token.trim().toUpperCase()): index of the first such entry, 0 if none.
FindLocal(tokens, token) ==
    IF \E i \in DOMAIN tokens : toUpperCase(tokens[i].token_code) = toUpperCase(token)
    THEN CHOOSE i \in DOMAIN tokens :
            /\ toUpperCase(tokens[i].token_code) = toUpperCase(token)
            /\ \A j \in DOMAIN tokens :
                    toUpperCase(tokens[j].token_code) = toUpperCase(token) => i <= j
    ELSE 0

\* The username of the User verifyLocalToken returns: found.token_code.
verifyLocalUser(tokens, token) == tokens[FindLocal(tokens, token)].token_code

\* verifyLocalToken: the outcome, a User or the error thrown.
verifyLocalResult(tokens, token, fp, confirm) ==
    LET i == FindLocal(tokens, token)
    IN  IF i = 0 THEN "E_NotCached"
        ELSE IF ~tokens[i].is_active THEN "E_Deactivated"
        ELSE IF tokens[i].device_fingerprint = NULL
             THEN (IF ~confirm THEN "E_BindingRequired" ELSE "UserOffline")
        ELSE IF tokens[i].device_fingerprint # fp THEN "E_Locked"
        ELSE "UserOffline"

\* A variant of the local check that drops the entry it has looked up.
verifyLocalCache_Drop(tokens, token, fp, confirm) ==
    LET i == FindLocal(tokens, token)
    IN  IF i # 0 THEN FilterOut(tokens, tokens[i].token_code) ELSE tokens

\* verifyLocalToken: the cache it leaves behind.
verifyLocalCache(tokens, token, fp, confirm) ==
    LET i == FindLocal(tokens, token)
    IN  IF i # 0 /\ tokens[i].is_active /\ tokens[i].device_fingerprint = NULL /\ confirm
        THEN updateLocalToken(tokens, tokens[i].token_code, fp)
        ELSE tokens

\* The fallback at the end of loginWithToken, on the device of fingerprint fp:
\* verifyLocalToken, then CURRENT_USER_KEY is written when it returned a User.
LocalFallback(s) ==
    LET c == call[s]
        res == verifyLocalResult(localTokens[c.fp], c.token, c.fp, c.confirm)
    IN  /\ localTokens' = [localTokens EXCEPT ![c.fp] =
                              verifyLocalCache(@, c.token, c.fp, c.confirm)]
        /\ currentUser' = IF res = "UserOffline"
                          THEN [currentUser EXCEPT ![c.fp] =
                                   verifyLocalUser(localTokens[c.fp], c.token)]
                          ELSE currentUser
        /\ call' = [call EXCEPT ![s] = [IdleCall EXCEPT !.result = res]]

\* The server's answers that apiRequest returns instead of throwing: a 2xx status.
IsOkResponse(r) == r \in {"Bound", "Valid", "RequiresBinding"}

\* The client receives the server's answer and loginWithToken runs to its end.
ClientResponse(s) ==
    /\ call[s].pc = "resp"
    /\ LET c == call[s]
       IN  IF IsOkResponse(c.response) /\ c.response # "RequiresBinding"
           THEN /\ localTokens' = [localTokens EXCEPT ![c.fp] =
                                      saveLocalToken(@, CachedToken(c.token, c.fp))]
                /\ currentUser' = [currentUser EXCEPT ![c.fp] = c.token]
                /\ call' = [call EXCEPT ![s] = [IdleCall EXCEPT !.result = "User"]]
           ELSE \* apiRequest threw, or BINDING_REQUIRED was thrown inside the
                \* try block: the catch swallows it and the local check runs.
                LocalFallback(s)
    /\ UNCHANGED <<access_tokens, ops>>
    /\ LoginFrame

\* loginWithToken while the network is down: apiRequest throws at once and
\* the local check decides.
LoginOffline(s) ==
    /\ call[s].pc = "idle"
    /\ ops < MaxOps
    /\ \E token \in Codes, fp \in Fingerprints, confirm \in BOOLEAN :
         LET res == verifyLocalResult(localTokens[fp], token, fp, confirm)
         IN  /\ localTokens' = [localTokens EXCEPT ![fp] =
                                   verifyLocalCache(@, token, fp, confirm)]
             /\ currentUser' = IF res = "UserOffline"
                               THEN [currentUser EXCEPT ![fp] =
                                        verifyLocalUser(localTokens[fp], token)]
                               ELSE currentUser
             /\ call' = [call EXCEPT ![s] = [IdleCall EXCEPT !.result = res]]
    /\ ops' = ops + 1
    /\ UNCHANGED access_tokens
    /\ LoginFrame

-----------------------------------------------------------------------------
(* Payment bridge: POST /api/payments/verify-paystack *)

MinAmount == 150000        \* the least verified amount accepted, in kobo

\* What the gateway may hold for a reference; "error" is a reference the
\* gateway rejects (axios throws on the non-2xx answer).
PaystackRecords ==
    {[status |-> "success", amount |-> MinAmount],
     [status |-> "success", amount |-> MinAmount - 1],
     [status |-> "failed", amount |-> MinAmount],
     [status |-> "error", amount |-> 0]}

IdlePay == [pc |-> "idle", ref |-> NULL, response |-> "none"]

PayFrame == UNCHANGED <<now, call, paystack, localTokens, currentUser, pending_tokens, gen, device, appVars>>

PayStart(p) ==
    /\ pay[p].pc = "idle"
    /\ ops < MaxOps
    /\ \E ref \in Refs :
         pay' = [pay EXCEPT ![p] = [IdlePay EXCEPT !.pc = "lookup", !.ref = ref]]
    /\ ops' = ops + 1
    /\ UNCHANGED <<access_tokens, nextId>>
    /\ PayFrame

\* A mutated lookup: it never finds the earlier credential.
ExistingToken_Never(ref) == NULL

\* SELECT ... WHERE metadata->>payment_ref = reference .single(): the code of
\* the one row found; no row, or more than one, leaves existingToken null.
ExistingToken(ref) ==
    IF Cardinality(RowsByRef(ref)) = 1
    THEN (CHOOSE r \in RowsByRef(ref) : TRUE).code
    ELSE NULL

PayLookup(p) ==
    /\ pay[p].pc = "lookup"
    /\ LET existing == ExistingToken(pay[p].ref)
       IN  IF existing # NULL
           THEN pay' = [pay EXCEPT ![p].pc = "idle", ![p].response = existing]
           ELSE pay' = [pay EXCEPT ![p].pc = "verify"]
    /\ UNCHANGED <<access_tokens, nextId, ops>>
    /\ PayFrame

\* The gateway's answer accepted by the handler.
PaymentAccepted(v) == v.status = "success" /\ v.amount >= MinAmount

PayVerify(p) ==
    /\ pay[p].pc = "verify"
    /\ LET v == paystack[pay[p].ref]
       IN  IF v.status = "error"
           THEN pay' = [pay EXCEPT ![p].pc = "idle", ![p].response = "Error_500"]
           ELSE IF ~PaymentAccepted(v)
           THEN pay' = [pay EXCEPT ![p].pc = "idle", ![p].response = "Error_400"]
           ELSE pay' = [pay EXCEPT ![p].pc = "insert"]
    /\ UNCHANGED <<access_tokens, nextId, ops>>
    /\ PayFrame

\* The amounts a client may put in the request body (the body's amount field
\* is sent by services/auth.ts and is not read by the handler).
ClientAmounts == {0, MinAmount \div 100}

PayBody(ref, amt) == [reference |-> ref, amount |-> amt]

\* metadata.amount_paid of the inserted row: data.amount / 100, data being the
\* gateway's answer.
amount_paid(body, data) == data.amount \div 100

\* generateAccessCode and the INSERT; a code collision is a UNIQUE violation,
\* thrown and answered 500.
PayInsert(p) ==
    /\ pay[p].pc = "insert"
    /\ \E code \in Codes, amt \in ClientAmounts :
         IF RowByCode(code) = {}
         THEN /\ access_tokens' = access_tokens \cup
                    {[NewRow(nextId, code, pay[p].ref) EXCEPT !.amount_paid =
                        amount_paid(PayBody(pay[p].ref, amt), paystack[pay[p].ref])]}
              /\ nextId' = nextId + 1
              /\ pay' = [pay EXCEPT ![p].pc = "idle", ![p].response = code]
         ELSE /\ UNCHANGED <<access_tokens, nextId>>
              /\ pay' = [pay EXCEPT ![p].pc = "idle", ![p].response = "Error_500"]
    /\ UNCHANGED ops
    /\ PayFrame

\* The token generateLocalTokenImmediate makes up (LOCAL-<type>-<random>-<time>).
LocalCodes == {"LOCAL-J-1"}

\* generateLocalTokenImmediate: the purchase page's fallback. It makes up a
\* token, pushes it on localStorage['pending_tokens'] with the reference and
\* the amount the caller passed, and returns the token at once.
generateLocalTokenImmediate(p) ==
    /\ pay[p].pc = "idle"
    /\ ops < MaxOps
    /\ \E ref \in Refs, amt \in ClientAmounts, token \in LocalCodes :
         /\ pending_tokens' = Append(pending_tokens,
                [token |-> token, reference |-> ref, amount |-> amt, synced |-> FALSE])
         /\ pay' = [pay EXCEPT ![p] = [IdlePay EXCEPT !.ref = ref, !.response = token]]
    /\ ops' = ops + 1
    /\ UNCHANGED <<now, access_tokens, nextId, call, paystack, localTokens,
                   currentUser, gen, device, appVars>>

NextPay ==
    \/ \E p \in PaySlots : PayStart(p)
    \/ \E p \in PaySlots : PayLookup(p)
    \/ \E p \in PaySlots : PayVerify(p)
    \/ \E p \in PaySlots : PayInsert(p)
    \/ \E p \in PaySlots : generateLocalTokenImmediate(p)

-----------------------------------------------------------------------------
(* Administrative operations (the server side of resetTokenDevice,          *)
(* toggleTokenStatus and deleteToken)                                       *)

AdminFrame == UNCHANGED <<now, nextId, call, pay, paystack, localTokens,
                          currentUser, pending_tokens, gen, device, appVars>>

\* A variant of the reset that also reactivates the credential.
adminResetBinding_Reactivate(id) ==
    /\ ops < MaxOps
    /\ RowById(id) # {}
    /\ access_tokens' = UpdateById(id, LAMBDA r :
            [r EXCEPT !.device_fingerprint = NULL, !.bound_at = NoTime,
                      !.expires_at = NoTime, !.is_active = TRUE])
    /\ ops' = ops + 1
    /\ AdminFrame

adminResetBinding(id) ==
    /\ ops < MaxOps
    /\ RowById(id) # {}
    /\ access_tokens' = UpdateById(id, LAMBDA r :
            [r EXCEPT !.device_fingerprint = NULL, !.bound_at = NoTime,
                      !.expires_at = NoTime])
    /\ ops' = ops + 1
    /\ AdminFrame

adminSetActive(id, active) ==
    /\ ops < MaxOps
    /\ RowById(id) # {}
    /\ access_tokens' = UpdateById(id, LAMBDA r : [r EXCEPT !.is_active = active])
    /\ ops' = ops + 1
    /\ AdminFrame

adminDelete(id) ==
    /\ ops < MaxOps
    /\ RowById(id) # {}
    /\ access_tokens' = access_tokens \ RowById(id)
    /\ ops' = ops + 1
    /\ AdminFrame

-----------------------------------------------------------------------------
(* The code generators: generateAccessCode (server) and generateSecureToken  *)
(* (client). A code is the sequence of its parts: the prefix, then the      *)
(* symbols and dashes one by one.                                           *)

\* A variant of the alphabet that holds the letter I in the place of J.
chars_WithI ==
    <<"A","B","C","D","E","F","G","H","I","K","L","M","N","P","Q","R",
      "S","T","U","V","W","X","Y","Z","2","3","4","5","6","7","8","9">>

\* const chars = 'ABCDEFGHJKLMNPQRSTUVWXYZ23456789'
chars ==
    <<"A","B","C","D","E","F","G","H","J","K","L","M","N","P","Q","R",
      "S","T","U","V","W","X","Y","Z","2","3","4","5","6","7","8","9">>

length == 12

\* The largest value of one random byte.
MaxByte == 255

\* The prefixes the callers pass: 'ACE' (the default) and 'OFFLINE'.
Prefixes == {"ACE", "OFFLINE"}

\* `${prefix}-${result.slice(0,4)}-${result.slice(4,8)}-${result.slice(8,12)}`
FormatCode(prefix, result) ==
    <<prefix, "-">> \o SubSeq(result, 1, 4) \o <<"-">> \o SubSeq(result, 5, 8)
        \o <<"-">> \o SubSeq(result, 9, 12)

\* generateAccessCode: chars[randomBytes[i] % chars.length] for each of the
\* twelve bytes.
generateAccessCode(prefix, randomBytes) ==
    FormatCode(prefix,
        [i \in 1..length |-> chars[(randomBytes[i] % Len(chars)) + 1]])

\* generateSecureToken: chars[values[i] % chars.length] with
\* crypto.getRandomValues, chars[Math.floor(Math.random() * chars.length)]
\* without it; Math.random() is values[i] / (MaxByte + 1), a number in [0, 1).
generateSecureToken(prefix, values, hasCrypto) ==
    FormatCode(prefix,
        [i \in 1..length |->
            IF hasCrypto
            THEN chars[(values[i] % Len(chars)) + 1]
            ELSE chars[((values[i] * Len(chars)) \div (MaxByte + 1)) + 1]])

NoGen == [fn |-> "none", prefix |-> NULL, rnd |-> <<>>, code |-> <<>>]

\* The calls checked: either generator, either prefix, and a random input
\* that holds any byte at one position and a fixed byte at the others.
GenInputs ==
    {[fn |-> f, prefix |-> p,
      rnd |-> [i \in 1..length |-> IF i = pos THEN v ELSE b], code |-> <<>>] :
        f \in {"server", "client_crypto", "client_math"}, p \in Prefixes,
        pos \in 1..length, v \in 0..MaxByte, b \in {0, MaxByte}}

GenFrame == UNCHANGED <<now, access_tokens, nextId, call, pay, paystack,
                        localTokens, currentUser, pending_tokens, device, ops,
                        appVars>>

\* One call of the server's generator.
callGenerateAccessCode ==
    /\ gen.fn = "server" /\ gen.code = <<>>
    /\ gen' = [gen EXCEPT !.code = generateAccessCode(gen.prefix, gen.rnd)]
    /\ GenFrame

\* One call of the client's generator.
callGenerateSecureToken ==
    /\ gen.fn \in {"client_crypto", "client_math"} /\ gen.code = <<>>
    /\ gen' = [gen EXCEPT !.code =
                  generateSecureToken(gen.prefix, gen.rnd, gen.fn = "client_crypto")]
    /\ GenFrame

NextGen == callGenerateAccessCode \/ callGenerateSecureToken

-----------------------------------------------------------------------------
(* The device: localStorage's fingerprint item *)

\* The two getDeviceFingerprint of the sources, named by the localStorage key
\* each one keeps its value under.
StorageKeys == {"jamb_cbt_device_fingerprint", "device_fingerprint"}

\* localStorage's item, and the values the function has returned so far.
FreshDevice == [k \in StorageKeys |-> [stored |-> NULL, returned |-> <<>>]]

\* The browser and hardware data of a device, as character codes.
rawData(d) == IF d = "fpA" THEN <<77, 97, 99>> ELSE <<87, 105, 110>>

\* The decimal digits of a number, as character codes: String(n).
RECURSIVE DigitCodes(_)
DigitCodes(n) ==
    IF n < 10 THEN <<48 + n>> ELSE Append(DigitCodes(n \div 10), 48 + (n % 10))

\* One round of the string hash, h = (31 * h + code) | 0, on a 32-bit value
\* kept as its two 16-bit halves <<high, low>>.
HashRound(h, code) ==
    LET t == 31 * h[2] + code
    IN  <<(31 * h[1] + (t \div 65536)) % 65536, t % 65536>>

\* hashString / hash: the rounds over the whole string, from 0.
RECURSIVE hashString(_)
hashString(str) ==
    IF str = <<>> THEN <<0, 0>>
    ELSE HashRound(hashString(SubSeq(str, 1, Len(str) - 1)), str[Len(str)])

\* Date.now(): the clock's reading.
DateNow == now

\* `DEV-${hash(rawData)}-${Date.now().toString(36)}`
NewFingerprint(d) == <<"DEV", hashString(rawData(d)), DateNow>>

\* hashString(navigatorData + canvasData + Date.now())
NewFingerprintHashed(d) == <<hashString(rawData(d) \o DigitCodes(DateNow))>>

DeviceFrame == UNCHANGED <<now, access_tokens, nextId, call, pay, paystack,
                           localTokens, currentUser, pending_tokens, gen,
                           appVars>>

\* getDeviceFingerprint in the form that computes value(d) when nothing is
\* stored under the key: the stored value if there is one, else a new value,
\* stored and returned.
GetFingerprint(d, key, value) ==
    /\ ops < MaxOps
    /\ LET item == device[d][key]
           fingerprint == IF item.stored # NULL THEN item.stored ELSE value
       IN  device' = [device EXCEPT ![d][key] =
                         [stored |-> fingerprint,
                          returned |-> Append(item.returned, fingerprint)]]
    /\ ops' = ops + 1
    /\ DeviceFrame

\* getDeviceFingerprint, STORAGE_KEY = 'jamb_cbt_device_fingerprint'.
getDeviceFingerprint(d) ==
    GetFingerprint(d, "jamb_cbt_device_fingerprint", NewFingerprint(d))

\* getDeviceFingerprint, key 'device_fingerprint' (FORCE_OFFLINE is false).
getDeviceFingerprintHashed(d) ==
    GetFingerprint(d, "device_fingerprint", NewFingerprintHashed(d))

\* The browser's storage is cleared (site data removed, a private window):
\* localStorage.getItem returns null for every key.
clearSiteData(d) ==
    /\ ops < MaxOps
    /\ \E k \in StorageKeys : device[d][k].stored # NULL
    /\ device' = [device EXCEPT ![d] =
                     [k \in StorageKeys |-> [device[d][k] EXCEPT !.stored = NULL]]]
    /\ ops' = ops + 1
    /\ DeviceFrame

NextDevice ==
    \/ Tick
    \/ \E d \in Devices : getDeviceFingerprint(d)
    \/ \E d \in Devices : getDeviceFingerprintHashed(d)
    \/ \E d \in Devices : clearSiteData(d)

-----------------------------------------------------------------------------
(* Exam results: saveStudentResult and syncOfflineResults (services/db.ts) *)

Usernames == {"u1"}
ResultIds == {"r1", "r2", "r3"}
SyncProcs == {"y1", "y2"}
SaveProcs == {"v1", "v2"}

\* A variant of the queue entry that does not keep the username.
QueueItem_Anonymous(username, result) ==
    [username |-> NULL, result |-> result, timestamp |-> DateNow]

\* offlineResults.push({username, result, timestamp: Date.now()})
QueueItem(username, result) ==
    [username |-> username, result |-> result, timestamp |-> DateNow]

\* One answered POST /students/:username/results: ok is res.ok, FALSE also
\* when fetch threw.
PostOf(username, result, ok) == [username |-> username, result |-> result, ok |-> ok]

\* The return value of a sync call that has not returned.
NotReturned == -1

IdleSync ==
    [pc |-> "idle", offlineResults |-> <<>>, i |-> 0, synced |-> 0,
     failed |-> <<>>, ret |-> NotReturned]

IdleSave == [pc |-> "idle", username |-> NULL, result |-> NULL, ret |-> "none"]

\* A result no call has been given yet: it is in no queue, no POST and no call.
Unsaved(r) ==
    /\ \A k \in DOMAIN offline_results : offline_results[k].result # r
    /\ \A k \in DOMAIN posts : posts[k].result # r
    /\ \A q \in SaveProcs : save[q].result # r
    /\ \A p \in SyncProcs :
         \A k \in DOMAIN sync[p].offlineResults : sync[p].offlineResults[k].result # r

ResultFrame == UNCHANGED <<now, access_tokens, nextId, call, pay, paystack,
                           localTokens, currentUser, pending_tokens, gen, device,
                           selected, examType, started, calc>>

\* saveStudentResult(username, result) up to its fetch.
SaveStart(q) ==
    /\ save[q].pc = "idle"
    /\ ops < MaxOps
    /\ \E u \in Usernames, r \in ResultIds :
         /\ Unsaved(r)
         /\ save' = [save EXCEPT ![q] =
                        [IdleSave EXCEPT !.pc = "await", !.username = u, !.result = r]]
    /\ ops' = ops + 1
    /\ UNCHANGED <<offline_results, posts, sync>>
    /\ ResultFrame

\* saveStudentResult after its fetch: `return true`, or the catch block that
\* appends to the queue and throws 'Saved offline - will sync when online'.
SaveFetched(q) ==
    /\ save[q].pc = "await"
    /\ \E ok \in BOOLEAN :
         /\ posts' = Append(posts, PostOf(save[q].username, save[q].result, ok))
         /\ IF ok
            THEN /\ save' = [save EXCEPT ![q].pc = "idle", ![q].ret = "true"]
                 /\ UNCHANGED offline_results
            ELSE /\ offline_results' = Append(offline_results,
                        QueueItem(save[q].username, save[q].result))
                 /\ save' = [save EXCEPT ![q].pc = "idle", ![q].ret = "E_SavedOffline"]
    /\ UNCHANGED <<sync, ops>>
    /\ ResultFrame

\* syncOfflineResults up to its first fetch: the queue is read once; an empty
\* queue returns 0.
SyncStart(p) ==
    /\ sync[p].pc = "idle"
    /\ ops < MaxOps
    /\ sync' = [sync EXCEPT ![p] =
                  IF Len(offline_results) = 0
                  THEN [IdleSync EXCEPT !.ret = 0]
                  ELSE [IdleSync EXCEPT !.pc = "await", !.i = 1,
                                        !.offlineResults = offline_results]]
    /\ ops' = ops + 1
    /\ UNCHANGED <<offline_results, posts, save>>
    /\ ResultFrame

\* A variant of the sync that empties the queue at the end, failed items included.
SyncFetched_DropFailed(p) ==
    /\ sync[p].pc = "await"
    /\ \E ok \in BOOLEAN :
         LET y == sync[p]
             item == y.offlineResults[y.i]
             synced == IF ok THEN y.synced + 1 ELSE y.synced
             failed == IF ok THEN y.failed ELSE Append(y.failed, item)
         IN  /\ posts' = Append(posts, PostOf(item.username, item.result, ok))
             /\ IF y.i = Len(y.offlineResults)
                THEN /\ offline_results' = <<>>
                     /\ sync' = [sync EXCEPT ![p] =
                                    [y EXCEPT !.pc = "idle", !.synced = synced,
                                              !.failed = failed, !.ret = synced]]
                ELSE /\ UNCHANGED offline_results
                     /\ sync' = [sync EXCEPT ![p] =
                                    [y EXCEPT !.i = y.i + 1, !.synced = synced,
                                              !.failed = failed]]
    /\ UNCHANGED <<save, ops>>
    /\ ResultFrame

\* syncOfflineResults after the fetch of item i: synced++ or failed.push(item);
\* after the last item the queue is overwritten with `failed` and synced is
\* returned.
SyncFetched(p) ==
    /\ sync[p].pc = "await"
    /\ \E ok \in BOOLEAN :
         LET y == sync[p]
             item == y.offlineResults[y.i]
             synced == IF ok THEN y.synced + 1 ELSE y.synced
             failed == IF ok THEN y.failed ELSE Append(y.failed, item)
         IN  /\ posts' = Append(posts, PostOf(item.username, item.result, ok))
             /\ IF y.i = Len(y.offlineResults)
                THEN /\ offline_results' = failed
                     /\ sync' = [sync EXCEPT ![p] =
                                    [y EXCEPT !.pc = "idle", !.synced = synced,
                                              !.failed = failed, !.ret = synced]]
                ELSE /\ UNCHANGED offline_results
                     /\ sync' = [sync EXCEPT ![p] =
                                    [y EXCEPT !.i = y.i + 1, !.synced = synced,
                                              !.failed = failed]]
    /\ UNCHANGED <<save, ops>>
    /\ ResultFrame

NextResults ==
    \/ \E q \in SaveProcs : SaveStart(q)
    \/ \E q \in SaveProcs : SaveFetched(q)
    \/ \E p \in SyncProcs : SyncStart(p)
    \/ \E p \in SyncProcs : SyncFetched(p)

\* One sync call and nothing else.
NextSyncAlone == SyncStart("y1") \/ SyncFetched("y1")

\* The longest queue a lone sync is started on.
MaxQueue == 3

\* The queues a sync may find: up to MaxQueue entries, repeated results included.
Queues ==
    UNION {[1..n -> {QueueItem(u, r) : u \in Usernames, r \in ResultIds}] :
              n \in 0..MaxQueue}

\* A queue left by earlier sessions, no call in progress.
InitQueued ==
    /\ offline_results \in Queues
    /\ posts = <<>>
    /\ sync = [p \in SyncProcs |-> IdleSync]
    /\ save = [q \in SaveProcs |-> IdleSave]

\* The result queue at the start: empty, no call in progress.
InitResults ==
    /\ offline_results = <<>>
    /\ posts = <<>>
    /\ sync = [p \in SyncProcs |-> IdleSync]
    /\ save = [q \in SaveProcs |-> IdleSave]

-----------------------------------------------------------------------------
(* Subject selection (SubjectSelection component) *)

\* The subjects offered on the page and the exam types of the portal.
Subjects == {"Physics", "Chemistry", "Biology", "Economics"}
ExamTypes == {"JAMB", "WAEC"}

JAMB_ELECTIVES_COUNT == 3
WAEC_SUBJECT_COUNT == 1

targetCount == IF examType = "JAMB" THEN JAMB_ELECTIVES_COUNT ELSE WAEC_SUBJECT_COUNT
isJamb == examType = "JAMB"

\* selected.includes(sub)
includes(list, sub) == \E k \in DOMAIN list : list[k] = sub

\* selected.filter(s => s !== sub)
filter(list, sub) == SelectSeq(list, LAMBDA s : s # sub)

SelectionFrame ==
    UNCHANGED <<now, access_tokens, nextId, call, pay, paystack, localTokens,
                currentUser, pending_tokens, gen, device, ops,
                offline_results, posts, sync, save, calc>>

\* A variant of toggleSubject that adds a subject whatever the length.
toggleSubject_NoLimit(sub) ==
    /\ IF ~isJamb
       THEN selected' = IF includes(selected, sub) THEN <<>> ELSE <<sub>>
       ELSE IF includes(selected, sub)
            THEN selected' = filter(selected, sub)
            ELSE selected' = Append(selected, sub)
    /\ UNCHANGED <<examType, started>>
    /\ SelectionFrame

toggleSubject(sub) ==
    /\ IF ~isJamb
       THEN selected' = IF includes(selected, sub) THEN <<>> ELSE <<sub>>
       ELSE IF includes(selected, sub)
            THEN selected' = filter(selected, sub)
            ELSE IF Len(selected) < targetCount
                 THEN selected' = Append(selected, sub)
                 ELSE UNCHANGED selected
    /\ UNCHANGED <<examType, started>>
    /\ SelectionFrame

\* The parent sets the examType prop; when it changed, the effect on
\* [examType] runs setSelected([]).
setExamType(type) ==
    /\ examType' = type
    /\ selected' = IF type # examType THEN <<>> ELSE selected
    /\ UNCHANGED started
    /\ SelectionFrame

isValid == Len(selected) = targetCount

\* The start control hands the selection to onStartExam when isValid.
StartExamClicked ==
    /\ isValid
    /\ started' = selected
    /\ UNCHANGED <<selected, examType>>
    /\ SelectionFrame

NextSelection ==
    \/ \E sub \in Subjects : toggleSubject(sub)
    \/ \E type \in ExamTypes : setExamType(type)
    \/ StartExamClicked

InitSelection == selected = <<>> /\ examType = "JAMB" /\ started = <<>>

-----------------------------------------------------------------------------
(* calculateResult (services/db.ts) *)

\* The longest question list of a subject in the sessions checked.
MaxQuestions == 2

SessionSubjects == {"English", "Mathematics"}
QuestionIds == {"q1", "q2"}
Options == {"A", "B"}

\* session.answers[q.id] of a question that was not answered.
undefined == "undefined"

\* The questions a session may hold: an id and the correct option, which the
\* questions table constrains to a letter (correct_option NOT NULL CHECK).
Questions == {[id |-> i, correctOption |-> o] : i \in QuestionIds, o \in Options}

QuestionLists == UNION {[1..n -> Questions] : n \in 0..MaxQuestions}

\* The sessions calculateResult is given: any subjects, any question lists,
\* any answers, answered or not.
ExamSessions ==
    {[examType |-> "JAMB", questions |-> qs, answers |-> an] :
        qs \in UNION {[S -> QuestionLists] : S \in SUBSET SessionSubjects},
        an \in [QuestionIds -> Options \cup {undefined}]}

\* A variant of the comparison that takes a missing answer for a correct one.
IsCorrect_Lenient(session, q) ==
    session.answers[q.id] \in {q.correctOption, undefined}

\* session.answers[q.id] === q.correctOption
IsCorrect(session, q) == session.answers[q.id] = q.correctOption

\* questions.forEach: totalQuestions++, and correct++ and totalScore++ on a
\* match; acc holds the three counters.
RECURSIVE forEachQuestion(_, _, _)
forEachQuestion(questions, session, acc) ==
    IF questions = <<>> THEN acc
    ELSE LET hit == IsCorrect(session, Head(questions))
         IN  forEachQuestion(Tail(questions), session,
                [correct |-> acc.correct + (IF hit THEN 1 ELSE 0),
                 totalScore |-> acc.totalScore + (IF hit THEN 1 ELSE 0),
                 totalQuestions |-> acc.totalQuestions + 1])

\* Math.round((a / b) * 100) for b > 0, else 0.
Percentage(a, b) == IF b > 0 THEN (200 * a + b) \div (2 * b) ELSE 0

\* Object.keys(session.questions).forEach over the subjects in keys; acc holds
\* scoreBySubject and the two totals.
RECURSIVE forEachSubject(_, _, _)
forEachSubject(keys, session, acc) ==
    IF keys = {} THEN acc
    ELSE LET subject == CHOOSE s \in keys : TRUE
             questions == session.questions[subject]
             c == forEachQuestion(questions, session,
                     [correct |-> 0, totalScore |-> acc.totalScore,
                      totalQuestions |-> acc.totalQuestions])
             total == Len(questions)
         IN  forEachSubject(keys \ {subject}, session,
                [scoreBySubject |-> acc.scoreBySubject @@
                    (subject :> [correct |-> c.correct, total |-> total,
                                 percentage |-> Percentage(c.correct, total)]),
                 totalScore |-> c.totalScore,
                 totalQuestions |-> c.totalQuestions])

calculateResult(session) ==
    LET r == forEachSubject(DOMAIN session.questions, session,
                [scoreBySubject |-> <<>>, totalScore |-> 0, totalQuestions |-> 0])
    IN  [examType |-> session.examType, timestamp |-> DateNow,
         scoreBySubject |-> r.scoreBySubject, totalScore |-> r.totalScore,
         totalQuestions |-> r.totalQuestions,
         overallPercentage |-> Percentage(r.totalScore, r.totalQuestions),
         session |-> session]

NoSession == [examType |-> "JAMB", questions |-> <<>>,
              answers |-> [i \in QuestionIds |-> undefined]]

NoCalc == [called |-> FALSE, session |-> NoSession, result |-> calculateResult(NoSession)]

\* One call of calculateResult on the session at hand.
callCalculateResult ==
    /\ ~calc.called
    /\ calc' = [calc EXCEPT !.called = TRUE, !.result = calculateResult(calc.session)]
    /\ UNCHANGED <<now, access_tokens, nextId, call, pay, paystack, localTokens,
                   currentUser, pending_tokens, gen, device, ops,
                   offline_results, posts, sync, save, selected, examType, started>>

NextCalc == callCalculateResult

\* A session submitted and not yet marked.
InitCalc ==
    \E s \in ExamSessions :
        calc = [called |-> FALSE, session |-> s, result |-> calculateResult(NoSession)]

-----------------------------------------------------------------------------
(* The specification *)

\* Everything but the generator's input.
InitStore ==
    /\ now = 0
    /\ access_tokens = {}
    /\ nextId = 1
    /\ call = [s \in Sessions |-> IdleCall]
    /\ pay = [p \in PaySlots |-> IdlePay]
    /\ paystack \in [Refs -> PaystackRecords]
    /\ localTokens = [d \in Devices |-> <<>>]
    /\ currentUser = [d \in Devices |-> NULL]
    /\ pending_tokens = <<>>
    /\ device = [d \in Devices |-> FreshDevice]
    /\ ops = 0

Init == InitStore /\ gen = NoGen /\ InitResults /\ InitSelection /\ calc = NoCalc

\* The generators alone, on each of the inputs.
InitGen ==
    InitStore /\ gen \in GenInputs /\ InitResults /\ InitSelection /\ calc = NoCalc

Next ==
    \/ Tick
    \/ createAccessCode
    \/ \E s \in Sessions : LoginStart(s)
    \/ \E s \in Sessions : LoginOffline(s)
    \/ \E s \in Sessions : SrvRead(s)
    \/ \E s \in Sessions : BindRead(s)
    \/ \E s \in Sessions : BindWrite(s)
    \/ \E s \in Sessions : ClientResponse(s)
    \/ \E p \in PaySlots : PayStart(p)
    \/ \E p \in PaySlots : PayLookup(p)
    \/ \E p \in PaySlots : PayVerify(p)
    \/ \E p \in PaySlots : PayInsert(p)
    \/ \E r \in access_tokens : adminResetBinding(r.id)
    \/ \E r \in access_tokens, active \in BOOLEAN : adminSetActive(r.id, active)
    \/ \E r \in access_tokens : adminDelete(r.id)

Spec == Init /\ [][Next]_vars

\* The code generators on their inputs.
SpecGen == InitGen /\ [][NextGen]_vars

\* The device fingerprint under the clock and the browser's storage.
SpecDevice == Init /\ [][NextDevice]_vars

\* Saving and syncing exam results, two calls of each in flight.
SpecResults == Init /\ [][NextResults]_vars

\* syncOfflineResults run alone on a queue left by earlier sessions.
InitSyncAlone == InitStore /\ gen = NoGen /\ InitQueued /\ InitSelection /\ calc = NoCalc

SpecSyncAlone == InitSyncAlone /\ [][NextSyncAlone]_vars

\* The subject selection page alone.
InitSelectionAlone == InitStore /\ gen = NoGen /\ InitResults /\ InitSelection /\ calc = NoCalc

SpecSelection == InitSelectionAlone /\ [][NextSelection]_vars

\* calculateResult on each session.
InitCalcAlone == InitStore /\ gen = NoGen /\ InitResults /\ InitSelection /\ InitCalc

SpecCalc == InitCalcAlone /\ [][NextCalc]_vars

\* The purchase page and the payment bridge alone.
SpecPay == Init /\ [][NextPay]_vars

-----------------------------------------------------------------------------
(* Properties *)

\* The row a login call addresses, NoRow when the table holds no such code.
RowOf(code) == IF RowByCode(code) = {} THEN NoRow ELSE CHOOSE r \in RowByCode(code) : TRUE

\* The answers by which a confirmed first bind ends once bindAccessCode has run.
TookBindPath(s) ==
    /\ call[s].pc = "resp"
    /\ call[s].confirm
    /\ call[s].response \in {"Bound", "Error_UsedElsewhere"}

\* The refusals that tell the caller the code belongs to another device: the
\* handler's 403 and bindAccessCode's 'already used on another device'.
IsDeviceMismatch(r) == r \in {"DeviceMismatch", "Error_UsedElsewhere"}

\* C1: first-bind race. Of two concurrent confirmed logins with different
\* fingerprints on the same active unbound code, exactly one is answered
\* Authorized, the other is refused as a device mismatch, and the stored
\* fingerprint is the winner's.
C1_FirstBindRace ==
    \A s1, s2 \in Sessions :
        (/\ s1 # s2
         /\ TookBindPath(s1) /\ TookBindPath(s2)
         /\ call[s1].token = call[s2].token
         /\ call[s1].fp # call[s2].fp
         /\ RowOf(call[s1].token).id # NoId)
        => \E w, l \in {s1, s2} :
              /\ w # l
              /\ call[w].response = "Bound"
              /\ IsDeviceMismatch(call[l].response)
              /\ RowOf(call[w].token).device_fingerprint = call[w].fp

\* The three binding fields of a record are all null or all set.
AtomicUnit(t) ==
    /\ (t.device_fingerprint = NULL) <=> (t.bound_at = NoTime)
    /\ (t.bound_at = NoTime) <=> (t.expires_at = NoTime)

\* C2: atomic binding unit. In every credential store, the server table and
\* each device's local token cache, every credential has deviceFingerprint,
\* boundAt and expiresAt all null or all non-null.
C2_AtomicBindingUnit ==
    /\ \A r \in access_tokens : AtomicUnit(r)
    /\ \A d \in Devices : \A i \in DOMAIN localTokens[d] : AtomicUnit(localTokens[d][i])

\* C3: once a credential is bound to a fingerprint, only an admin reset changes
\* the stored fingerprint: no step other than a reset takes it from F to
\* anything but F.
C3_FingerprintSetOnce ==
    [][ \/ \E r \in access_tokens : adminResetBinding(r.id)
        \/ \A r \in access_tokens : \A r2 \in access_tokens' :
              (r2.id = r.id /\ r.device_fingerprint # NULL)
                  => r2.device_fingerprint = r.device_fingerprint ]_vars

\* C4: payment idempotency race. At most one credential carries a given
\* payment reference, whatever the interleaving of concurrent completions.
C4_OneCredentialPerReference ==
    \A ref \in Refs : Cardinality(RowsByRef(ref)) <= 1

\* C5: payment idempotency in sequence. A completion whose lookup runs while
\* one credential already carries the reference (the second of two calls in
\* sequence) answers with that credential's code, generates no new code and
\* inserts nothing; and no step of a completion adds more than one credential.
C5_PaymentReplay ==
    [][ \A p \in PaySlots :
          /\ (/\ pay[p].pc = "lookup" /\ pay'[p].pc # "lookup"
              /\ Cardinality(RowsByRef(pay[p].ref)) = 1)
             => /\ pay'[p].pc = "idle"
                /\ pay'[p].response = (CHOOSE r \in RowsByRef(pay[p].ref) : TRUE).code
                /\ access_tokens' = access_tokens
          /\ (pay[p].pc = "insert" /\ pay'[p].pc # "insert")
             => Cardinality(access_tokens' \ access_tokens) <= 1 ]_vars

\* Two completions of one reference have both answered the same code and one
\* credential carries the reference.
C5_Witness ==
    \E p, q \in PaySlots :
        /\ p # q
        /\ pay[p].pc = "idle" /\ pay[q].pc = "idle"
        /\ pay[p].ref # NULL /\ pay[p].ref = pay[q].ref
        /\ pay[p].response \in Codes /\ pay[q].response = pay[p].response
        /\ Cardinality(RowsByRef(pay[p].ref)) = 1

\* C6: expiry enforcement. A login on an active credential bound to the
\* presented fingerprint is answered Expired when now > expiresAt and
\* Authorized when now <= expiresAt.
C6_ExpiryEnforced ==
    [][ \A s \in Sessions :
          (call[s].pc = "srv_read" /\ call'[s].pc # "srv_read")
          => LET row == RowOf(call[s].token)
             IN  (/\ row.id # NoId /\ row.is_active
                  /\ row.device_fingerprint = call[s].fp
                  /\ row.expires_at # NoTime)
                 => IF now > row.expires_at
                    THEN call'[s].response = "Expired"
                    ELSE call'[s].response = "Valid" ]_vars

\* C7: deactivated overrides validity. A login that reads a credential with
\* is_active = false is answered Deactivated, whatever the binding state, the
\* fingerprint and confirm_binding; it does not go on to bind and changes no
\* row; and the login that was answered Deactivated never ends with a user
\* signed in on the device.
C7_DeactivatedOverrides ==
    [][ \A s \in Sessions :
          /\ (call[s].pc = "srv_read" /\ call'[s].pc # "srv_read")
             => LET row == RowOf(call[s].token)
                IN  (row.id # NoId /\ ~row.is_active)
                    => /\ call'[s].pc = "resp"
                       /\ call'[s].response = "Deactivated"
                       /\ access_tokens' = access_tokens
          /\ (/\ call[s].pc = "resp" /\ call[s].response = "Deactivated"
              /\ call'[s].pc # "resp")
             => /\ call'[s].result \notin {"User", "UserOffline"}
                /\ currentUser' = currentUser ]_vars

SameDateNextYear(b, e) ==
    /\ YearOf(e) = YearOf(b) + 1
    /\ MonthOf(e) = MonthOf(b)
    /\ DayOf(e) = Min(DayOf(b), DaysInMonth(YearOf(e), MonthOf(b)))
    /\ e - b \in {365, 366}

C9_NoReExtension ==
    [][ \/ \E r \in access_tokens : adminResetBinding(r.id)
        \/ \A r \in access_tokens : \A r2 \in access_tokens' :
              (r2.id = r.id /\ r.expires_at # NoTime)
                  => r2.expires_at = r.expires_at /\ r2.bound_at = r.bound_at ]_vars

\* bindAccessCode has run twice on one credential, the second time after the
\* clock moved on from the first bind.
C9_Witness ==
    \E s1, s2 \in Sessions :
        /\ s1 # s2
        /\ call[s1].pc = "resp" /\ call[s1].response = "Bound"
        /\ call[s2].pc = "resp" /\ call[s2].response = "Bound"
        /\ call[s1].token = call[s2].token
        /\ RowOf(call[s1].token).id # NoId
        /\ RowOf(call[s1].token).expires_at # NoTime
        /\ RowOf(call[s1].token).bound_at < now

\* C10: admin unbind then rebind. A reset clears deviceFingerprint, boundAt
\* and expiresAt together, and the confirmed login that next finds the
\* credential unbound is not refused by bindAccessCode: it binds, with
\* boundAt = now and a fresh expiresAt.
C10_ResetThenRebind ==
    [][ /\ \A r \in access_tokens :
              adminResetBinding(r.id)
                  => \A r2 \in access_tokens' :
                        r2.id = r.id => /\ r2.device_fingerprint = NULL
                                        /\ r2.bound_at = NoTime
                                        /\ r2.expires_at = NoTime
        /\ \A s \in Sessions :
              (/\ call[s].pc = "bind_read" /\ call'[s].pc # "bind_read"
               /\ RowOf(call[s].token).id # NoId
               /\ RowOf(call[s].token).device_fingerprint = NULL)
              => call'[s].pc = "bind_write"
        /\ \A s \in Sessions :
              (/\ call[s].pc = "bind_write" /\ call'[s].pc # "bind_write"
               /\ RowOf(call[s].token).id = call[s].data_id
               /\ RowOf(call[s].token).device_fingerprint = NULL)
              => /\ call'[s].response = "Bound"
                 /\ \A r2 \in access_tokens' :
                       r2.id = call[s].data_id
                           => /\ r2.device_fingerprint = call[s].fp
                              /\ r2.bound_at = now
                              /\ r2.expires_at = PlusOneYear(now) ]_vars

-----------------------------------------------------------------------------
(* Reset Device Lock as the token-validity reference documents it            *)
(* (TOKEN_VALIDITY_REFERENCE, Scenario 5): device_fingerprint is set to      *)
(* null and expires_at remains unchanged.                                    *)

resetDeviceLock(id) ==
    /\ ops < MaxOps
    /\ RowById(id) # {}
    /\ access_tokens' = UpdateById(id, LAMBDA r : [r EXCEPT !.device_fingerprint = NULL])
    /\ ops' = ops + 1
    /\ AdminFrame

NextResetLock ==
    \/ Tick
    \/ createAccessCode
    \/ \E s \in Sessions : LoginStart(s)
    \/ \E s \in Sessions : SrvRead(s)
    \/ \E s \in Sessions : BindRead(s)
    \/ \E s \in Sessions : BindWrite(s)
    \/ \E s \in Sessions : ClientResponse(s)
    \/ \E r \in access_tokens : resetDeviceLock(r.id)

SpecResetLock == Init /\ [][NextResetLock]_vars

\* C11: Reset Device Lock does not reset the expiry. The reset sets
\* device_fingerprint to null and leaves expires_at unchanged; the credential
\* it leaves (unbound, expiry set) can be bound again by any device, and the
\* bind leaves the original expires_at in place.
C11_ResetKeepsExpiry ==
    /\ [][ \A r \in access_tokens :
              resetDeviceLock(r.id)
                  => \A r2 \in access_tokens' :
                        r2.id = r.id => /\ r2.device_fingerprint = NULL
                                        /\ r2.expires_at = r.expires_at ]_vars
    /\ [](\A r \in access_tokens : \A fp \in Fingerprints :
            (r.device_fingerprint = NULL /\ r.expires_at # NoTime)
                => /\ ~BindRefused(r, fp)
                   /\ \A r2 \in BindUpdate(r.id, fp) :
                         r2.id = r.id => r2.expires_at = r.expires_at)

\* A local cache holding one entry of the code, active, with fingerprint f.
CacheOf(code, f) == <<[CachedToken(code, f) EXCEPT !.device_fingerprint = f]>>

\* C12: binding requires explicit confirmation. A login without
\* confirm_binding that reads an active unbound credential is answered
\* requires_binding; no step of a login without confirm_binding changes the
\* credential table, and the device's cache changes in such a call only when
\* the server answered that the credential is already bound to this device;
\* the local check without confirmation refuses an unbound cached credential
\* and leaves the cache as it was.
C12_BindingNeedsConfirmation ==
    [][ \A s \in Sessions :
          (call[s].pc # "idle" /\ ~call[s].confirm /\ call'[s] # call[s])
          => /\ access_tokens' = access_tokens
             /\ localTokens' # localTokens => call[s].response = "Valid"
             /\ (/\ call[s].pc = "srv_read"
                 /\ RowOf(call[s].token).id # NoId
                 /\ RowOf(call[s].token).is_active
                 /\ RowOf(call[s].token).device_fingerprint = NULL)
                => /\ call'[s].pc = "resp"
                   /\ call'[s].response = "RequiresBinding"
             /\ LET unbound == CacheOf(call[s].token, NULL)
                IN  /\ verifyLocalResult(unbound, call[s].token, call[s].fp, FALSE)
                          = "E_BindingRequired"
                    /\ verifyLocalCache(unbound, call[s].token, call[s].fp, FALSE)
                          = unbound ]_vars

\* A login without confirm_binding on an active unbound credential has been
\* answered requires_binding.
C12_Witness ==
    \E s \in Sessions :
        /\ call[s].pc = "resp" /\ ~call[s].confirm
        /\ call[s].response = "RequiresBinding"
        /\ RowOf(call[s].token).id # NoId
        /\ RowOf(call[s].token).is_active
        /\ RowOf(call[s].token).device_fingerprint = NULL

\* C13: when the server answers a token login with requires_binding, the
\* outcome loginWithToken gives its caller is BINDING_REQUIRED: no other
\* error and no signed-in user.
C13_BindingRequiredReported ==
    [][ \A s \in Sessions :
          (/\ call[s].pc = "resp" /\ call[s].response = "RequiresBinding"
           /\ call'[s].pc = "idle")
          => /\ call'[s].result = "E_BindingRequired"
             /\ currentUser' = currentUser ]_vars

\* C14: generate then bind. A confirmed login that reads an active unbound
\* credential binds it: the call goes through bindAccessCode without being
\* refused and is answered as bound, and the row then holds the presented
\* fingerprint, boundAt = now and expiresAt = now + 365 days.
C14_GenerateThenBind ==
    [][ \A s \in Sessions :
          /\ (/\ call[s].pc = "srv_read" /\ call'[s].pc # "srv_read"
              /\ call[s].confirm
              /\ RowOf(call[s].token).id # NoId
              /\ RowOf(call[s].token).is_active
              /\ RowOf(call[s].token).device_fingerprint = NULL)
             => call'[s].pc = "bind_read"
          /\ (call[s].pc = "bind_read" /\ call'[s].pc # "bind_read")
             => call'[s].pc = "bind_write"
          /\ (call[s].pc = "bind_write" /\ call'[s].pc # "bind_write")
             => /\ call'[s].response = "Bound"
                /\ \A r2 \in access_tokens' :
                      r2.id = call[s].data_id
                          => /\ r2.device_fingerprint = call[s].fp
                             /\ r2.bound_at = now
                             /\ r2.expires_at = now + 365 ]_vars

\* C15: wrong device. A login that reads an active credential bound to a
\* fingerprint other than the presented one is answered as a device
\* mismatch for either value of confirm_binding and changes no row; the
\* local check refuses a cached credential bound to another fingerprint; and
\* the login answered with the mismatch never ends with a user signed in.
C15_WrongDevice ==
    [][ \A s \in Sessions :
          /\ (call[s].pc = "srv_read" /\ call'[s].pc # "srv_read")
             => LET row == RowOf(call[s].token)
                IN  (/\ row.id # NoId /\ row.is_active
                     /\ row.device_fingerprint \notin {NULL, call[s].fp})
                    => /\ call'[s].pc = "resp"
                       /\ call'[s].response = "DeviceMismatch"
                       /\ access_tokens' = access_tokens
                       /\ \A other \in Fingerprints \ {call[s].fp} :
                             LET locked == CacheOf(call[s].token, other)
                             IN  /\ verifyLocalResult(locked, call[s].token,
                                                      call[s].fp, call[s].confirm) = "E_Locked"
                                 /\ verifyLocalCache(locked, call[s].token,
                                                     call[s].fp, call[s].confirm) = locked
          /\ (/\ call[s].pc = "resp" /\ call[s].response = "DeviceMismatch"
              /\ call'[s].pc # "resp")
             => /\ call'[s].result \notin {"User", "UserOffline"}
                /\ currentUser' = currentUser ]_vars

\* The outcomes by which the caller of a payment completion holds a code.
IsCode(r) == r \in Codes \cup LocalCodes

\* C16: PaymentNotVerified. No credential carries a payment reference, and no
\* caller holds a code for a reference, unless the gateway reports that
\* reference as successful with at least the minimum amount.
C16_NoCodeWithoutVerification ==
    /\ \A r \in access_tokens :
          r.payment_ref # NULL => PaymentAccepted(paystack[r.payment_ref])
    /\ \A p \in PaySlots :
          (pay[p].ref # NULL /\ IsCode(pay[p].response))
              => PaymentAccepted(paystack[pay[p].ref])

\* C17: the payment bridge never trusts a client-supplied amount or status.
\* Two completions of one reference, which see the same answer of the
\* gateway, never differ in being accepted or rejected, and whatever they
\* record for the reference (the credential's amount_paid, the pending
\* token's amount) carries the same amount, the one the gateway verified.
C17_ClientAmountNotTrusted ==
    /\ \A p, q \in PaySlots :
          (pay[p].ref # NULL /\ pay[p].ref = pay[q].ref)
              => ~(IsCode(pay[p].response) /\ pay[q].response = "Error_400")
    /\ \A r \in access_tokens :
          r.payment_ref # NULL
              => r.amount_paid = paystack[r.payment_ref].amount \div 100
    /\ \A i, j \in DOMAIN pending_tokens :
          pending_tokens[i].reference = pending_tokens[j].reference
              => pending_tokens[i].amount = pending_tokens[j].amount

-----------------------------------------------------------------------------
(* Transient failures during a token login: the store answers a statement   *)
(* with an error, or the server's answer does not reach the client in time. *)

\* The handler's SELECT comes back with `error` set: if (error || !tokenData)
\* answers 401 'Invalid Access Token.'.
SrvReadError(s) ==
    /\ call[s].pc = "srv_read"
    /\ call' = [call EXCEPT ![s].pc = "resp", ![s].response = "Invalid"]
    /\ UNCHANGED <<access_tokens, ops, localTokens, currentUser>>
    /\ LoginFrame

\* bindAccessCode's SELECT comes back with `error` set: it throws
\* 'Invalid Access Code' and the handler answers 500 with that message.
BindReadError(s) ==
    /\ call[s].pc = "bind_read"
    /\ call' = [call EXCEPT ![s].pc = "resp", ![s].response = "Error_InvalidCode"]
    /\ UNCHANGED <<access_tokens, ops, localTokens, currentUser>>
    /\ LoginFrame

\* bindAccessCode's UPDATE fails: updateError is thrown and answered 500 with
\* the store's own message.
BindWriteError(s) ==
    /\ call[s].pc = "bind_write"
    /\ call' = [call EXCEPT ![s].pc = "resp", ![s].response = "Error_Store"]
    /\ UNCHANGED <<access_tokens, ops, localTokens, currentUser>>
    /\ LoginFrame

\* The answer does not arrive within the 5 s of withTimeout / fetchWithTimeout:
\* the promise rejects, the catch swallows it and the local check decides.
ClientTimeout(s) ==
    /\ call[s].pc = "resp"
    /\ LocalFallback(s)
    /\ UNCHANGED <<access_tokens, ops>>
    /\ LoginFrame

NextFaults ==
    \/ createAccessCode
    \/ \E s \in Sessions : LoginStart(s)
    \/ \E s \in Sessions : LoginOffline(s)
    \/ \E s \in Sessions : SrvRead(s)
    \/ \E s \in Sessions : SrvReadError(s)
    \/ \E s \in Sessions : BindRead(s)
    \/ \E s \in Sessions : BindReadError(s)
    \/ \E s \in Sessions : BindWrite(s)
    \/ \E s \in Sessions : BindWriteError(s)
    \/ \E s \in Sessions : ClientResponse(s)
    \/ \E s \in Sessions : ClientTimeout(s)

SpecFaults == Init /\ [][NextFaults]_vars

\* The answers and outcomes that tell the caller the credential itself is
\* refused: invalid, deactivated, locked to another device.
DefinitiveNegative ==
    {"Invalid", "Deactivated", "DeviceMismatch", "Error_InvalidCode",
     "Error_UsedElsewhere", "E_NotCached", "E_Deactivated", "E_Locked"}

\* C18: a transient failure during a login (a store error on the server, an
\* unreachable server or a timed-out answer on the client) is never reported
\* as an invalid credential or any other definitive refusal.
C18_TransientNotDefinitive ==
    [][ \A s \in Sessions :
          /\ (SrvReadError(s) \/ BindReadError(s) \/ BindWriteError(s))
                => call'[s].response \notin DefinitiveNegative
          /\ (LoginOffline(s) \/ ClientTimeout(s))
                => call'[s].result \notin DefinitiveNegative ]_vars

\* The outcome of loginWithToken that names the same kind of refusal as the
\* server's answer r.
SameKind(r) ==
    IF r = "Invalid" THEN "E_NotCached"
    ELSE IF r = "Deactivated" THEN "E_Deactivated"
    ELSE IF r = "DeviceMismatch" THEN "E_Locked"
    ELSE "E_Expired"

\* C19: authorization failures disclose their kind. When the server refuses a
\* login as invalid, deactivated, locked to another device or expired, the
\* error loginWithToken gives its caller is of that same kind.
C19_FailureKindDisclosed ==
    [][ \A s \in Sessions :
          (/\ call[s].pc = "resp" /\ call'[s].pc = "idle"
           /\ call[s].response \in {"Invalid", "Deactivated", "DeviceMismatch", "Expired"})
          => call'[s].result = SameKind(call[s].response) ]_vars

-----------------------------------------------------------------------------
(* The session gate: verifyOfflineAccess *)

\* SELECT ... WHERE code = code AND device_fingerprint = deviceFingerprint
\* .single(): no row throws 'Access Code not valid on this device', a row
\* returns { success: true }.
verifyOfflineAccess(s) ==
    /\ call[s].pc = "idle"
    /\ ops < MaxOps
    /\ \E code \in Codes, fp \in Fingerprints :
         LET data == {r \in access_tokens : r.code = code /\ r.device_fingerprint = fp}
         IN  call' = [call EXCEPT ![s] =
                        [IdleCall EXCEPT !.token = code, !.fp = fp,
                                         !.result = IF data = {} THEN "E_NotValidOnDevice"
                                                    ELSE "Permit"]]
    /\ ops' = ops + 1
    /\ UNCHANGED <<access_tokens, localTokens, currentUser>>
    /\ LoginFrame

NextGate ==
    \/ Tick
    \/ createAccessCode
    \/ \E s \in Sessions : LoginStart(s)
    \/ \E s \in Sessions : SrvRead(s)
    \/ \E s \in Sessions : BindRead(s)
    \/ \E s \in Sessions : BindWrite(s)
    \/ \E s \in Sessions : ClientResponse(s)
    \/ \E s \in Sessions : verifyOfflineAccess(s)

SpecGate == Init /\ [][NextGate]_vars

\* C20: session gate. The gate permits only an active, non-expired credential
\* bound to the presented fingerprint; and a login that reads a bound
\* credential whose fingerprint differs from the presented one, or whose
\* expiry has passed, is refused outright: it is sent no binding prompt, is
\* not authorized, and changes no row.
C20_SessionGate ==
    [][ \A s \in Sessions :
          /\ (verifyOfflineAccess(s) /\ call'[s].result = "Permit")
             => LET row == RowOf(call'[s].token)
                IN  /\ row.id # NoId /\ row.is_active
                    /\ row.device_fingerprint = call'[s].fp
                    /\ row.expires_at # NoTime /\ now <= row.expires_at
          /\ (call[s].pc = "srv_read" /\ call'[s].pc # "srv_read")
             => LET row == RowOf(call[s].token)
                IN  (/\ row.id # NoId /\ row.device_fingerprint # NULL
                     /\ (row.device_fingerprint # call[s].fp \/ now > row.expires_at))
                    => /\ call'[s].pc = "resp"
                       /\ call'[s].response \notin {"RequiresBinding", "Bound", "Valid"}
                       /\ access_tokens' = access_tokens ]_vars

-----------------------------------------------------------------------------
(* Code uniqueness *)

\* A step that runs an INSERT of a drawn code: createAccessCode, or the
\* payment handler's insert.
CreateStep == createAccessCode \/ \E p \in PaySlots : PayInsert(p)

-----------------------------------------------------------------------------
(* Collisions at generation *)

\* C22: a collision is retried with a fresh draw: a create whose first draw
\* hits a stored code and whose next draw is a free code ends with a created
\* credential.
C22_CollisionRetried ==
    [][\A draws \in DrawStreams :
         (/\ RowByCode(draws[1]) # {}
          /\ RowByCode(draws[2]) = {}
          /\ createAccessCodeWith(draws))
         => \E r \in access_tokens' \ access_tokens : r.code = draws[2]]_vars

-----------------------------------------------------------------------------
(* Letter case of the typed code *)

\* loginWithToken with the code as the user typed it: the token goes into the
\* request body unchanged.
LoginStartTyped(s) ==
    /\ call[s].pc = "idle"
    /\ ops < MaxOps
    /\ \E token \in Typed, fp \in Fingerprints, confirm \in BOOLEAN :
         call' = [call EXCEPT ![s] =
                    [IdleCall EXCEPT !.pc = "srv_read", !.token = token,
                                     !.fp = fp, !.confirm = confirm]]
    /\ ops' = ops + 1
    /\ UNCHANGED <<access_tokens, localTokens, currentUser>>
    /\ LoginFrame

\* loginWithToken while the network is down, with the code as typed.
LoginOfflineTyped(s) ==
    /\ call[s].pc = "idle"
    /\ ops < MaxOps
    /\ \E token \in Typed, fp \in Fingerprints, confirm \in BOOLEAN :
         LET res == verifyLocalResult(localTokens[fp], token, fp, confirm)
         IN  /\ localTokens' = [localTokens EXCEPT ![fp] =
                                   verifyLocalCache(@, token, fp, confirm)]
             /\ currentUser' = IF res = "UserOffline"
                               THEN [currentUser EXCEPT ![fp] =
                                        verifyLocalUser(localTokens[fp], token)]
                               ELSE currentUser
             /\ call' = [call EXCEPT ![s] = [IdleCall EXCEPT !.result = res]]
    /\ ops' = ops + 1
    /\ UNCHANGED access_tokens
    /\ LoginFrame

NextCase ==
    \/ createAccessCode
    \/ \E s \in Sessions : LoginStartTyped(s)
    \/ \E s \in Sessions : LoginOfflineTyped(s)
    \/ \E s \in Sessions : SrvRead(s)
    \/ \E s \in Sessions : BindRead(s)
    \/ \E s \in Sessions : BindWrite(s)
    \/ \E s \in Sessions : ClientResponse(s)

\* Token login with codes typed in either letter case.
SpecCase == Init /\ [][NextCase]_vars

\* C23: code lookup is case-insensitive on the server path: the handler's
\* SELECT for a typed code finds the credential of the upper-case form and
\* decides as it would for that form.
C23_CaseInsensitiveLookup ==
    [][\A s \in Sessions :
         SrvRead(s) =>
            LET c == call[s]
                d == LoginDecision(RowOf(toUpperCase(c.token)), c.fp, c.confirm)
            IN  IF d = "bind" THEN call'[s].pc = "bind_read"
                ELSE call'[s].response = d]_vars

-----------------------------------------------------------------------------
(* The state of a new credential *)

\* No device, no binding time, no expiry.
Unbound(r) ==
    r.device_fingerprint = NULL /\ r.bound_at = NoTime /\ r.expires_at = NoTime

-----------------------------------------------------------------------------
(* The frame of the administrative operations *)

\* The fields the device reset may not touch.
SameButBinding(q, r) ==
    /\ r.id = q.id /\ r.code = q.code /\ r.is_active = q.is_active
    /\ r.is_used = q.is_used /\ r.payment_ref = q.payment_ref
    /\ r.amount_paid = q.amount_paid

-----------------------------------------------------------------------------
(* The shape of a generated code *)

Alphabet == {chars[i] : i \in DOMAIN chars}

\* The symbols the alphabet must not hold.
Ambiguous == {"0", "O", "1", "I"}

\* prefix, then three groups of four symbols of the alphabet, a dash before each.
HasShape(code) ==
    /\ Len(code) = 16
    /\ code[1] \in Prefixes
    /\ \A i \in 2..16 :
         IF i \in {2, 7, 12} THEN code[i] = "-" ELSE code[i] \in Alphabet

\* C26: every generated code is the prefix followed by three dash-separated
\* groups of four symbols, all twelve from an alphabet of 32 symbols that holds
\* none of 0, O, 1, I, for the server's generator and for the client's.
C26_CodeShape ==
    /\ Cardinality(Alphabet) = 32
    /\ Alphabet \cap Ambiguous = {}
    /\ gen.code # <<>> => HasShape(gen.code)

\* The client's generator without crypto has returned a code whose first
\* symbol is the last of the alphabet.
C26_Witness ==
    /\ gen.fn = "client_math"
    /\ gen.code # <<>>
    /\ gen.code[1] = "OFFLINE"
    /\ gen.code[3] = "9"

-----------------------------------------------------------------------------
(* Stability of the device fingerprint *)

\* C27: every call of getDeviceFingerprint on the same browser and hardware
\* returns the same value, the calls made after the stored fingerprint was
\* removed included.
C27_FingerprintStable ==
    \A d \in Devices, k \in StorageKeys :
        \A i, j \in DOMAIN device[d][k].returned :
            device[d][k].returned[i] = device[d][k].returned[j]

-----------------------------------------------------------------------------
(* The client after a refusal *)

\* The answers by which the server refuses a code.
ServerDenials == {"Invalid", "Deactivated", "DeviceMismatch"}

\* C28: the client never overrides a server denial: a loginWithToken call
\* whose request was answered with a refusal returns no User and stores no
\* current user, whatever the local token cache holds.
C28_DenialNotOverridden ==
    [][\A s \in Sessions :
         (ClientResponse(s) /\ call[s].response \in ServerDenials) =>
            /\ call'[s].result \notin {"User", "UserOffline"}
            /\ currentUser' = currentUser]_vars

-----------------------------------------------------------------------------
(* The frame of a login that does not succeed *)

\* The server's answers that are not a success.
NonSuccess == ServerDenials \cup {"RequiresBinding"}

\* The outcomes of the local check that are not a success.
LocalErrors == {"E_NotCached", "E_Deactivated", "E_BindingRequired", "E_Locked"}

\* C29: a login is read-only on every path that is not a success: the
\* handler's step that answers Invalid, Deactivated, DeviceMismatch or
\* RequiresBinding, the client's step that receives such an answer, and the
\* offline check that ends in an error leave every stored credential and the
\* local token cache as they were.
C29_NonSuccessReadOnly ==
    [][\/ /\ access_tokens' = access_tokens
          /\ localTokens' = localTokens
       \/ \A s \in Sessions :
            /\ ~(SrvRead(s) /\ call'[s].response \in NonSuccess)
            /\ ~(ClientResponse(s) /\ call[s].response \in NonSuccess)
            /\ ~(LoginOffline(s) /\ call'[s].result \in LocalErrors)]_vars

\* A login has ended with the local check's error while the code is bound to
\* a device that holds it in its cache.
C29_Witness ==
    \E s \in Sessions, d \in Devices, r \in access_tokens :
        /\ call[s].result = "E_NotCached"
        /\ localTokens[d] # <<>>
        /\ localTokens[d][1].token_code = r.code
        /\ r.device_fingerprint = d

-----------------------------------------------------------------------------
(* Binding and deactivation *)

\* C30: a deactivated credential is never bound: whenever bindAccessCode's
\* UPDATE is applied, the row it writes is active at that moment.
C30_NoBindWhenDeactivated ==
    [][\A s \in Sessions :
         BindWrite(s) => \A r \in RowById(call[s].data_id) : r.is_active]_vars

-----------------------------------------------------------------------------
(* The offline result queue under concurrency *)

\* The result has been posted with success.
Posted(ps, r) == \E j \in DOMAIN ps : ps[j].result = r /\ ps[j].ok

\* C31: no offline result is lost: an entry leaves the offline queue only
\* when its result has been posted to the backend with success, whatever the
\* interleaving of syncOfflineResults with a failing saveStudentResult.
C31_NoResultLost ==
    [][\A k \in DOMAIN offline_results :
         (\A j \in DOMAIN offline_results' :
              offline_results'[j] # offline_results[k])
         => Posted(posts', offline_results[k].result)]_vars

\* C32: each queued result is posted with success at most once, whatever the
\* interleaving of two syncOfflineResults calls that read the same queue.
C32_PostedAtMostOnce ==
    \A r \in ResultIds :
        Cardinality({j \in DOMAIN posts : posts[j].result = r /\ posts[j].ok}) <= 1

-----------------------------------------------------------------------------
(* syncOfflineResults run alone *)

\* The entries of list whose POST was not ok, in their order.
RECURSIVE KeepFailed(_, _)
KeepFailed(list, ps) ==
    IF list = <<>> THEN <<>>
    ELSE IF ps[1].ok THEN KeepFailed(Tail(list), Tail(ps))
    ELSE <<Head(list)>> \o KeepFailed(Tail(list), Tail(ps))

\* The number of POSTs answered ok.
RECURSIVE CountOk(_)
CountOk(ps) ==
    IF ps = <<>> THEN 0 ELSE (IF ps[1].ok THEN 1 ELSE 0) + CountOk(Tail(ps))

\* C33: syncOfflineResults run alone attempts every queued item once, in queue
\* order, returns the number of items whose POST succeeded, and leaves the
\* queue equal to the items whose POST failed, in their order, so that the
\* count returned plus the length of the queue left is the length of the
\* queue read; on an empty queue it returns 0 and posts nothing.
C33_SyncAlone ==
    LET y == sync["y1"]
        list == y.offlineResults
        base == Len(posts) - Len(list)
        run == SubSeq(posts, base + 1, Len(posts))
    IN  (y.pc = "idle" /\ y.ret # NotReturned) =>
            /\ base >= 0
            /\ ops = 1 => base = 0
            /\ \A k \in DOMAIN list :
                 /\ run[k].result = list[k].result
                 /\ run[k].username = list[k].username
            /\ y.ret = CountOk(run)
            /\ offline_results = KeepFailed(list, run)
            /\ y.ret + Len(offline_results) = Len(list)
            /\ list = <<>> => y.ret = 0

\* A lone sync of three entries has finished with one POST ok and two failed.
C33_Witness ==
    /\ sync["y1"].pc = "idle"
    /\ sync["y1"].ret = 1
    /\ Len(sync["y1"].offlineResults) = 3
    /\ Len(offline_results) = 2
    /\ ops = 1

-----------------------------------------------------------------------------
(* saveStudentResult *)

\* C34: when the POST succeeds saveStudentResult returns true and leaves the
\* offline queue as it was; when the POST fails it appends one entry with that
\* username and result at the end of the queue, leaves the earlier entries as
\* they were, and throws the 'Saved offline' error.
C34_SaveOrQueue ==
    [][\A q \in SaveProcs :
         SaveFetched(q) =>
            IF posts'[Len(posts')].ok
            THEN /\ save'[q].ret = "true"
                 /\ offline_results' = offline_results
            ELSE /\ save'[q].ret = "E_SavedOffline"
                 /\ Len(offline_results') = Len(offline_results) + 1
                 /\ SubSeq(offline_results', 1, Len(offline_results)) = offline_results
                 /\ offline_results'[Len(offline_results')].username = save[q].username
                 /\ offline_results'[Len(offline_results')].result = save[q].result]_vars

\* A save has failed onto a queue that already held an entry: the queue holds
\* both, the new one last.
C34_Witness ==
    \E q \in SaveProcs :
        /\ save[q].ret = "E_SavedOffline"
        /\ Len(offline_results) = 2
        /\ offline_results[2].result = save[q].result
        /\ offline_results[1].result # save[q].result

-----------------------------------------------------------------------------
(* calculateResult *)

RECURSIVE SumOver(_, _)
SumOver(S, f) ==
    IF S = {} THEN 0
    ELSE LET x == CHOOSE y \in S : TRUE IN f[x] + SumOver(S \ {x}, f)

\* C35: totalQuestions is the sum of the subjects' question counts, totalScore
\* the sum of their correct counts; a subject's correct count is the number of
\* its questions whose recorded answer is the correct option; 0 <= correct <=
\* total for each subject and 0 <= totalScore <= totalQuestions; a question
\* without answer never counts as correct; the session and its answers are
\* left as they were.
C35_CalculateResult ==
    calc.called =>
        LET s == calc.session
            r == calc.result
            subjects == DOMAIN s.questions
            hits(sub) == {k \in DOMAIN s.questions[sub] :
                            /\ s.answers[s.questions[sub][k].id] # undefined
                            /\ s.answers[s.questions[sub][k].id] =
                                   s.questions[sub][k].correctOption}
        IN  /\ DOMAIN r.scoreBySubject = subjects
            /\ \A sub \in subjects :
                 /\ r.scoreBySubject[sub].total = Len(s.questions[sub])
                 /\ r.scoreBySubject[sub].correct = Cardinality(hits(sub))
                 /\ 0 <= r.scoreBySubject[sub].correct
                 /\ r.scoreBySubject[sub].correct <= r.scoreBySubject[sub].total
            /\ r.totalQuestions =
                 SumOver(subjects, [sub \in subjects |-> r.scoreBySubject[sub].total])
            /\ r.totalScore =
                 SumOver(subjects, [sub \in subjects |-> r.scoreBySubject[sub].correct])
            /\ 0 <= r.totalScore /\ r.totalScore <= r.totalQuestions
            /\ r.session = s
            /\ s \in ExamSessions

\* A session of two subjects with an unanswered question and a right answer
\* has been marked: one of three questions correct.
C35_Witness ==
    /\ calc.called
    /\ DOMAIN calc.session.questions = SessionSubjects
    /\ calc.session.answers["q1"] = undefined
    /\ calc.result.totalQuestions = 3
    /\ calc.result.totalScore = 1

-----------------------------------------------------------------------------
(* Subject selection *)

NoDuplicates(list) == \A j, k \in DOMAIN list : list[j] = list[k] => j = k

====
